---- MODULE Spec2Model ----
(***************************************************************************)
(* Model of the axmldecoder crate: the chunk scan of `parse`               *)
(* (src/src/lib.rs) and of `BinaryXmlDocument::read_from_file`             *)
(* (src/src/binaryxml.rs), the string pool decoder (src/src/stringpool.rs),*)
(* the resource value resolver (src/src/resource_value.rs) and the tree    *)
(* builder `XmlDocument::new` (src/src/xml.rs).                            *)
(*                                                                         *)
(* The input is a sequence of bytes.  A read position p is the number of   *)
(* bytes already consumed, so the next byte is b[p + 1].  A Rust           *)
(* Option<T> is a sequence of length 0 (None) or 1 (Some).  A Rust String  *)
(* is the sequence of its Unicode code points.  A u32 is the record of its *)
(* two 16-bit halves [hi, lo], so that all 2^32 values are kept apart; a   *)
(* u8, a u16 and a length are plain integers.                              *)
(***************************************************************************)
EXTENDS Integers, Sequences, FiniteSets, TLC

VARIABLES
    doc,              \* the document the input bytes were written from
    entry,            \* the function decoding: "parse" or "BinaryXmlDocument"
    input,            \* the bytes handed to the decoder
    pos,              \* read position of the input stream
    pc,               \* "start", "scan", "build" or "done"
    elements,         \* Vec<XmlElement> collected by the chunk scan
    string_pool,      \* Option<StringPool>
    resource_map,     \* Option<Vec<u32>>
    namespaces,       \* HashMap uri -> prefix of XmlDocument::new
    element_tracker,  \* Vec<Element>: the stack of XmlDocument::new
    idx,              \* number of elements XmlDocument::new has consumed
    result            \* what the decoder returned, once pc = "done"

vars == <<doc, entry, input, pos, pc, elements, string_pool, resource_map,
          namespaces, element_tracker, idx, result>>

----------------------------------------------------------------------------
(* Program constants *)

\* u32 values: n as a u32 (n a number below 2^31), u32::MAX, and the
\* number a u32 below 2^31 stands for.
U32(n) == [hi |-> n \div 65536, lo |-> n % 65536]
U32_MAX == [hi |-> 65535, lo |-> 65535]
Fits(x) == x.hi < 32768
Num(x) == x.hi * 65536 + x.lo

STRINGPOOL_HEADER_SIZE == 28

RT_NullType == 0
RT_StringPool == 1
RT_Table == 2
RT_Xml == 3
RT_XmlStartNameSpace == 256
RT_XmlEndNameSpace == 257
RT_XmlStartElement == 258
RT_XmlEndElement == 259
RT_XmlCdata == 260
RT_XmlLastChunk == 383
RT_XmlResourceMap == 384
RT_TablePackage == 512
RT_TableType == 513
RT_TableTypeSpec == 514
RT_TableLibrary == 515

RVT_String == 3
RVT_Dec == 16
RVT_Hex == 17
RVT_Boolean == 18

\* impl TryFrom<u16> for ResourceType in lib.rs: the tags it accepts.
ResourceTypeLib ==
    {RT_StringPool, RT_Table, RT_Xml, RT_XmlStartNameSpace, RT_XmlEndNameSpace,
     RT_XmlStartElement, RT_XmlEndElement, RT_XmlCdata, RT_XmlLastChunk,
     RT_XmlResourceMap, RT_TablePackage, RT_TableType, RT_TableTypeSpec,
     RT_TableLibrary}

\* #[derive(TryFromPrimitive)] enum ResourceType in binaryxml.rs.
ResourceTypeBx == ResourceTypeLib \cup {RT_NullType}

ResourceTypeOf(e) == IF e = "parse" THEN ResourceTypeLib ELSE ResourceTypeBx

\* impl TryFrom<u8> for ResourceValueType: the type bytes it accepts.
ResourceValueTypes == {0, 1, 2, 3, 4, 5, 6, 16, 17, 18, 28, 29, 30, 31}

\* #[derive(Debug)] on ResourceValueType: the variant's name.
DebugName(t) ==
    CASE t = 0 -> <<78, 117, 108, 108>>                             \* "Null"
      [] t = 1 -> <<82, 101, 102, 101, 114, 101, 110, 99, 101>>     \* "Reference"
      [] t = 2 -> <<65, 116, 116, 114, 105, 98, 117, 116, 101>>     \* "Attribute"
      [] t = 3 -> <<83, 116, 114, 105, 110, 103>>                   \* "String"
      [] t = 4 -> <<70, 108, 111, 97, 116>>                         \* "Float"
      [] t = 5 -> <<68, 105, 109, 101, 110, 115, 105, 111, 110>>    \* "Dimension"
      [] t = 6 -> <<70, 114, 97, 99, 116, 105, 111, 110>>           \* "Fraction"
      [] t = 16 -> <<68, 101, 99>>                                  \* "Dec"
      [] t = 17 -> <<72, 101, 120>>                                 \* "Hex"
      [] t = 18 -> <<66, 111, 111, 108, 101, 97, 110>>              \* "Boolean"
      [] t = 28 -> <<67, 111, 108, 111, 114, 65, 114, 103, 98, 56>> \* "ColorArgb8"
      [] t = 29 -> <<67, 111, 108, 111, 114, 82, 103, 98, 56>>      \* "ColorRgb8"
      [] t = 30 -> <<67, 111, 108, 111, 114, 65, 114, 103, 98, 52>> \* "ColorArgb4"
      [] t = 31 -> <<67, 111, 108, 111, 114, 82, 103, 98, 52>>      \* "ColorRgb4"

\* String literals of the source, as code points.
StrTypePrefix ==                                    \* "ResourceValueType::"
    <<82, 101, 115, 111, 117, 114, 99, 101, 86, 97, 108, 117, 101, 84, 121,
      112, 101, 58, 58>>
StrHexPrefix == <<48, 120>>                         \* "0x"
StrFalse == <<102, 97, 108, 115, 101>>              \* "false"
StrTrue == <<116, 114, 117, 101>>                   \* "true"
StrSlash == <<47>>                                  \* "/"
StrColon == <<58>>                                  \* ':'

----------------------------------------------------------------------------
(* Little-endian reads (read_u8, read_u16, read_u32 of lib.rs).  A read of  *)
(* n bytes at p fails with IoError when fewer than n bytes are left.        *)

Avail(b, p, n) == p + n <= Len(b)

U8At(b, p) == b[p + 1]
U16At(b, p) == b[p + 1] + 256 * b[p + 2]
U32At(b, p) == [hi |-> U16At(b, p + 2), lo |-> U16At(b, p)]

\* Outcomes of a read: "ok" with a value and the new position, "io"
\* (ParseError::IoError), "invalid" (ParseError::InvalidFile), "utf"
\* (a string decoding error), "panic" (the thread panics) or "abort" (the
\* allocator fails and the process is killed).
\* A read_exact that finds too few bytes consumes what is left: after an
\* IoError the position is the end of the input.
Ok(v, p) == [st |-> "ok", val |-> v, pos |-> p]
Fail(s, p) == [st |-> s, val |-> <<>>, pos |-> p]

\* ChunkHeader::read_from_file: the type tag is converted before the other
\* two fields are read.
ChunkHeaderRead(b, p, known) ==
    IF ~Avail(b, p, 2) THEN Fail("io", Len(b))
    ELSE IF U16At(b, p) \notin known THEN Fail("invalid", p + 2)
    ELSE IF ~Avail(b, p, 8) THEN Fail("io", Len(b))
    ELSE Ok([typ |-> U16At(b, p), header_size |-> U16At(b, p + 2),
             size |-> U32At(b, p + 4)], p + 8)

\* XmlNodeHeader (line_no, comment) followed by two u32: the layout of
\* XmlStartNameSpace, XmlEndNameSpace and XmlEndElement.
NodePairRead(b, p) ==
    IF ~Avail(b, p, 16) THEN Fail("io", Len(b))
    ELSE Ok(<<U32At(b, p + 8), U32At(b, p + 12)>>, p + 16)

XmlStartNameSpaceRead(b, p) ==
    LET r == NodePairRead(b, p) IN
    IF r.st # "ok" THEN r
    ELSE Ok([kind |-> "XmlStartNameSpace", prefix |-> r.val[1], uri |-> r.val[2]],
            r.pos)

XmlEndNameSpaceRead(b, p) ==
    LET r == NodePairRead(b, p) IN
    IF r.st # "ok" THEN r
    ELSE Ok([kind |-> "XmlEndNameSpace", prefix |-> r.val[1], uri |-> r.val[2]],
            r.pos)

XmlEndElementRead(b, p) ==
    LET r == NodePairRead(b, p) IN
    IF r.st # "ok" THEN r
    ELSE Ok([kind |-> "XmlEndElement", ns |-> r.val[1], name |-> r.val[2]], r.pos)

\* ResourceValue::read_from_file: size, res, data_type (unwrap of the
\* conversion), data.
ResourceValueRead(b, p) ==
    IF ~Avail(b, p, 4) THEN Fail("io", Len(b))
    ELSE IF U8At(b, p + 3) \notin ResourceValueTypes THEN Fail("panic", p + 4)
    ELSE IF ~Avail(b, p, 8) THEN Fail("io", Len(b))
    ELSE Ok([size |-> U16At(b, p), res |-> U8At(b, p + 2),
             data_type |-> U8At(b, p + 3), data |-> U32At(b, p + 4)], p + 8)

\* XmlAttribute::read_from_file: ns, name, the raw value (dropped), the
\* typed value.
XmlAttributeRead(b, p) ==
    IF ~Avail(b, p, 12) THEN Fail("io", Len(b))
    ELSE LET v == ResourceValueRead(b, p + 12) IN
         IF v.st # "ok" THEN v
         ELSE Ok([ns |-> U32At(b, p), name |-> U32At(b, p + 4),
                  typed_value |-> v.val], v.pos)

\* The attribute loop of XmlStartElement::read_from_file.
RECURSIVE AttributesRead(_, _, _, _)
AttributesRead(b, p, n, acc) ==
    IF n = 0 THEN Ok(acc, p)
    ELSE LET a == XmlAttributeRead(b, p) IN
         IF a.st # "ok" THEN a
         ELSE AttributesRead(b, a.pos, n - 1, Append(acc, a.val))

\* XmlStartElement::read_from_file: node header, XmlAttrExt, attributes.
XmlStartElementRead(b, p) ==
    IF ~Avail(b, p, 28) THEN Fail("io", Len(b))
    ELSE LET as == AttributesRead(b, p + 28, U16At(b, p + 20), <<>>) IN
         IF as.st # "ok" THEN as
         ELSE Ok([kind |-> "XmlStartElement",
                  ns |-> U32At(b, p + 8), name |-> U32At(b, p + 12),
                  attributes |-> as.val], as.pos)

\* XmlCdata::read_from_file: node header, data, typed_data.
XmlCdataRead(b, p) ==
    IF ~Avail(b, p, 12) THEN Fail("io", Len(b))
    ELSE LET v == ResourceValueRead(b, p + 12) IN
         IF v.st # "ok" THEN v
         ELSE Ok([kind |-> "XmlCdata", data |-> U32At(b, p + 8),
                  typed_data |-> v.val], v.pos)

\* The id loop of parse_resource_map: n reads of a u32, the first that
\* finds fewer than four bytes left fails.
IdsRead(b, p, n) ==
    IF n > (Len(b) - p) \div 4 THEN Fail("io", Len(b))
    ELSE Ok([i \in 1..n |-> U32At(b, p + 4 * (i - 1))], p + 4 * n)

\* An allocation of n four-byte items whose size, 2^31 bytes or more, is
\* beyond what the machine is sure to have: the allocation succeeds or the
\* process is killed, depending on the machine.
AllocMayFail(n) == n.hi >= 8192

\* size - header_size below zero, for a u32 size and a u16 header_size.
SizeBelow(size, header_size) == Fits(size) /\ Num(size) < header_size

\* (size - header_size) / 4 computed modulo 2^32.
IdCount(size, header_size) ==
    IF SizeBelow(size, header_size)
    THEN 1073741824 + ((Num(size) - header_size) \div 4)
    ELSE size.hi * 16384 + ((size.lo - header_size) \div 4)

\* parse_resource_map: id_count = (size - header_size) / 4 in u32.  When
\* size < header_size the subtraction panics in a build with overflow
\* checks and wraps modulo 2^32 in a build without them; both outcomes are
\* possible.
\* Vec::with_capacity(id_count) may then fail to allocate.
ParseResourceMap(b, p, h) ==
    LET n == IdCount(h.size, h.header_size) IN
    (IF SizeBelow(h.size, h.header_size) THEN {Fail("panic", p)} ELSE {})
    \cup (IF AllocMayFail(U32(n)) THEN {Fail("abort", p)} ELSE {})
    \cup {IdsRead(b, p, n)}

----------------------------------------------------------------------------
(* String pool (stringpool.rs) *)

Sub(b, from, n) == SubSeq(b, from + 1, from + n)

IsHighSurrogate(u) == u >= 55296 /\ u <= 56319
IsLowSurrogate(u) == u >= 56320 /\ u <= 57343
IsCont(x) == x >= 128 /\ x <= 191

\* String::from_utf16: surrogate pairs combine, an unpaired surrogate is an
\* error.
RECURSIVE FromUtf16(_, _, _)
FromUtf16(u, i, acc) ==
    IF i > Len(u) THEN Ok(acc, 0)
    ELSE IF IsHighSurrogate(u[i])
    THEN IF i + 1 <= Len(u) /\ IsLowSurrogate(u[i + 1])
         THEN FromUtf16(u, i + 2,
                  Append(acc, 65536 + (u[i] - 55296) * 1024 + (u[i + 1] - 56320)))
         ELSE Fail("utf", 0)
    ELSE IF IsLowSurrogate(u[i]) THEN Fail("utf", 0)
    ELSE FromUtf16(u, i + 1, Append(acc, u[i]))

\* String::from_utf8: well-formed sequences of one to four bytes; overlong
\* forms, surrogates and values above U+10FFFF are errors.
RECURSIVE FromUtf8(_, _, _)
FromUtf8(s, i, acc) ==
    IF i > Len(s) THEN Ok(acc, 0)
    ELSE LET c == s[i]
             has(k) == i + k <= Len(s) /\ \A j \in 1..k : IsCont(s[i + j])
         IN
         IF c < 128 THEN FromUtf8(s, i + 1, Append(acc, c))
         ELSE IF c >= 194 /\ c <= 223 /\ has(1)
         THEN FromUtf8(s, i + 2, Append(acc, (c - 192) * 64 + (s[i + 1] - 128)))
         ELSE IF c >= 224 /\ c <= 239 /\ has(2)
                 /\ (c = 224 => s[i + 1] >= 160) /\ (c = 237 => s[i + 1] <= 159)
         THEN FromUtf8(s, i + 3,
                  Append(acc, (c - 224) * 4096 + (s[i + 1] - 128) * 64
                              + (s[i + 2] - 128)))
         ELSE IF c >= 240 /\ c <= 244 /\ has(3)
                 /\ (c = 240 => s[i + 1] >= 144) /\ (c = 244 => s[i + 1] <= 143)
         THEN FromUtf8(s, i + 4,
                  Append(acc, (c - 240) * 262144 + (s[i + 1] - 128) * 4096
                              + (s[i + 2] - 128) * 64 + (s[i + 3] - 128)))
         ELSE Fail("utf", 0)

is_high_bit_set_16(x) == (x \div 32768) % 2 = 1
is_high_bit_set_8(x) == (x \div 128) % 2 = 1

\* parse_utf16_string: a u16 length, then that many u16 code units.  A slice
\* index out of range and the unimplemented!() of a long string panic.
parse_utf16_string(sd, offset) ==
    IF ~Fits(offset) \/ Num(offset) > Len(sd) - 2 THEN Fail("panic", 0)
    ELSE LET at == Num(offset)
             len == U16At(sd, at)
         IN
         IF is_high_bit_set_16(len) THEN Fail("panic", 0)
         ELSE IF at + 2 + 2 * len > Len(sd) THEN Fail("panic", 0)
         ELSE FromUtf16([i \in 1..len |-> U16At(sd, at + 2 + 2 * (i - 1))],
                        1, <<>>)

\* parse_utf8_string: the byte at offset is skipped, the next is the length
\* in bytes.
parse_utf8_string(sd, offset) ==
    IF ~Fits(offset) \/ Num(offset) > Len(sd) - 2 THEN Fail("panic", 0)
    ELSE LET at == Num(offset)
             len == U8At(sd, at + 1)
         IN
         IF is_high_bit_set_8(len) THEN Fail("panic", 0)
         ELSE IF at + 2 + len > Len(sd) THEN Fail("panic", 0)
         ELSE FromUtf8(Sub(sd, at + 2, len), 1, <<>>)

\* The string loop of StringPool::read_from_file: the first string that
\* fails ends it.
RECURSIVE StringsParse(_, _, _, _, _)
StringsParse(sd, offsets, i, utf8, acc) ==
    IF i > Len(offsets) THEN Ok(acc, 0)
    ELSE LET r == IF utf8 THEN parse_utf8_string(sd, offsets[i])
                  ELSE parse_utf16_string(sd, offsets[i])
         IN
         IF r.st # "ok" THEN r
         ELSE StringsParse(sd, offsets, i + 1, utf8, Append(acc, r.val))

\* StringPool::read_from_file, after the chunk header h was read at p - 8.
\* size - 28 and string_start - 28 below zero panic (the overflow check, or
\* the capacity overflow and the slice index the wrapped value leads to).
\* A size of 2^31 or more is past the end of any input here.  The buffer of
\* size - 28 bytes and the offsets of parse_offsets are allocated before
\* anything is read into them: from 2^31 bytes on the allocation may fail.
\* The outcomes are a set.
StringPoolRead(b, p, h) ==
    IF ~Avail(b, p, 20) THEN {Fail("io", Len(b))}
    ELSE LET string_count == U32At(b, p)
             style_count == U32At(b, p + 4)
             flags == U32At(b, p + 8)
             string_start == U32At(b, p + 12)
             style_start == U32At(b, p + 16)
             s == Num(h.size) - STRINGPOOL_HEADER_SIZE
             data == Sub(b, p + 20, s)
             offsets == [i \in 1..Num(string_count) |-> U32At(data, 4 * (i - 1))]
             sds == Num(string_start) - STRINGPOOL_HEADER_SIZE
             strs == StringsParse(Sub(data, sds, s - sds), offsets, 1,
                                  (flags.lo \div 256) % 2 = 1, <<>>)
         IN
         IF style_count # U32(0) THEN {Fail("panic", p + 20)}
         ELSE IF ~Fits(h.size)
         THEN {Fail("io", Len(b)), Fail("abort", p + 20)}
         ELSE IF s < 0 THEN {Fail("panic", p + 20)}
         ELSE IF ~Avail(b, p + 20, s) THEN {Fail("io", Len(b))}
         ELSE IF AllocMayFail(string_count)
         THEN {Fail("panic", p + 20 + s), Fail("abort", p + 20 + s)}
         ELSE IF ~Fits(string_count) \/ Num(string_count) > s \div 4
         THEN {Fail("panic", p + 20 + s)}
         ELSE IF ~Fits(string_start) \/ sds < 0 \/ sds > s
         THEN {Fail("panic", p + 20 + s)}
         ELSE IF strs.st # "ok" THEN {Fail(strs.st, p + 20 + s)}
         ELSE {Ok([header |-> [string_count |-> string_count,
                              style_count |-> style_count, flags |-> flags,
                              string_start |-> string_start,
                              style_start |-> style_start],
                  strings |-> strs.val], p + 20 + s)}

\* x modulo n, for a u32 x and a number n > 0.
U32Mod(x, n) == ((x.hi % n) * (65536 % n) + x.lo) % n

\* StringPool::get without the test for u32::MAX and with the index wrapped
\* around the end of the pool instead of checked against it.
getWrappingIndex(sp, i) ==
    IF sp.strings = <<>> THEN <<>>
    ELSE <<sp.strings[U32Mod(i, Len(sp.strings)) + 1]>>

\* StringPool::get(i): None for the index u32::MAX and for an index past
\* the end of the strings.
get(sp, i) ==
    IF i = U32_MAX THEN <<>>
    ELSE IF Fits(i) /\ Num(i) < Len(sp.strings) THEN <<sp.strings[Num(i) + 1]>>
    ELSE <<>>

----------------------------------------------------------------------------
(* Resource values (resource_value.rs) *)

\* A value computed by a function that can panic.
Val(v) == [st |-> "ok", val |-> v]
Panic(site) == [st |-> "panic", val |-> site]

\* u32::to_string: the decimal digits, most significant first.
\* x / 10 and x % 10 for a u32 x.
Div10(x) ==
    [hi |-> x.hi \div 10, lo |-> ((x.hi % 10) * 65536 + x.lo) \div 10]
Mod10(x) == ((x.hi % 10) * 65536 + x.lo) % 10

RECURSIVE to_string(_)
to_string(x) ==
    IF x.hi = 0 /\ x.lo < 10 THEN <<48 + x.lo>>
    ELSE Append(to_string(Div10(x)), 48 + Mod10(x))

\* x / 16 and x % 16 for a u32 x, and its hexadecimal digits.
Div16(x) == [hi |-> x.hi \div 16, lo |-> ((x.hi % 16) * 65536 + x.lo) \div 16]
Mod16(x) == x.lo % 16
RECURSIVE to_hex_string(_)
to_hex_string(x) ==
    LET digit == IF Mod16(x) < 10 THEN 48 + Mod16(x) ELSE 87 + Mod16(x) IN
    IF x.hi = 0 /\ x.lo < 16 THEN <<digit>>
    ELSE Append(to_hex_string(Div16(x)), digit)

\* get_value with the Hex arm written with {:x}: hexadecimal digits after
\* "0x".
get_valueHexDigits(v, sp) ==
    IF v.data_type = RVT_String
    THEN IF get(sp, v.data) = <<>> THEN Panic("get_value: unwrap on None")
         ELSE Val(get(sp, v.data)[1])
    ELSE IF v.data_type = RVT_Dec THEN Val(to_string(v.data))
    ELSE IF v.data_type = RVT_Hex THEN Val(StrHexPrefix \o to_hex_string(v.data))
    ELSE IF v.data_type = RVT_Boolean
    THEN Val(IF v.data = U32(0) THEN StrFalse ELSE StrTrue)
    ELSE Val(StrTypePrefix \o DebugName(v.data_type) \o StrSlash
             \o to_string(v.data))

\* ResourceValue::get_value.
get_value(v, sp) ==
    IF v.data_type = RVT_String
    THEN IF get(sp, v.data) = <<>> THEN Panic("get_value: unwrap on None")
         ELSE Val(get(sp, v.data)[1])
    ELSE IF v.data_type = RVT_Dec THEN Val(to_string(v.data))
    ELSE IF v.data_type = RVT_Hex THEN Val(StrHexPrefix \o to_string(v.data))
    ELSE IF v.data_type = RVT_Boolean
    THEN Val(IF v.data = U32(0) THEN StrFalse ELSE StrTrue)
    ELSE Val(StrTypePrefix \o DebugName(v.data_type) \o StrSlash
             \o to_string(v.data))

----------------------------------------------------------------------------
(* Tree builder (xml.rs) *)

\* HashMap::insert: a new key is added, an existing key gets the new value.
Insert(m, k, v) == [x \in (DOMAIN m) \cup {k} |-> IF x = k THEN v ELSE m[x]]

\* XmlDocument::process_start_namespace: both lookups are unwrapped.
process_start_namespace(e, sp) ==
    IF get(sp, e.uri) = <<>> THEN Panic("process_start_namespace: unwrap on None")
    ELSE IF get(sp, e.prefix) = <<>>
    THEN Panic("process_start_namespace: unwrap on None")
    ELSE Val(<<get(sp, e.uri)[1], get(sp, e.prefix)[1]>>)

\* process_cdata taking the text from the typed value instead of e.data.
process_cdataTyped(e, sp) ==
    LET r == get_value(e.typed_data, sp) IN
    IF r.st # "ok" THEN r
    ELSE Val([node |-> "Cdata", data |-> r.val])

\* XmlDocument::process_cdata: the text is the pooled string at e.data.
process_cdata(e, sp) ==
    IF get(sp, e.data) = <<>> THEN Panic("process_cdata: unwrap on None")
    ELSE Val([node |-> "Cdata", data |-> get(sp, e.data)[1]])

\* The attribute loop of process_start_element: for each attribute the name
\* is unwrapped, the value resolved, and the key prefixed when ns is Some.
RECURSIVE AttributesBuild(_, _, _, _, _)
AttributesBuild(attrs, i, sp, nss, acc) ==
    IF i > Len(attrs) THEN Val(acc)
    ELSE LET attr == attrs[i]
             ns == get(sp, attr.ns)
             name == get(sp, attr.name)
             value == get_value(attr.typed_value, sp)
         IN
         IF name = <<>> THEN Panic("process_start_element: unwrap on None")
         ELSE IF value.st # "ok" THEN value
         ELSE IF ns # <<>> /\ ns[1] \notin DOMAIN nss
         THEN Panic("process_start_element: namespaces.get unwrap on None")
         ELSE AttributesBuild(attrs, i + 1, sp, nss,
                  Insert(acc,
                         IF ns # <<>> THEN nss[ns[1]] \o StrColon \o name[1]
                         ELSE name[1],
                         value.val))

\* XmlDocument::process_start_element.
process_start_element(e, sp, nss) ==
    IF get(sp, e.ns) # <<>> THEN Panic("process_start_element: assert_eq!(ns, None)")
    ELSE IF get(sp, e.name) = <<>>
    THEN Panic("process_start_element: unwrap on None")
    ELSE LET as == AttributesBuild(e.attributes, 1, sp, nss, <<>>) IN
         IF as.st # "ok" THEN as
         ELSE Val([node |-> "Element", attributes |-> as.val,
                   tag |-> get(sp, e.name)[1], children |-> <<>>])

\* insert_children putting the child first instead of last.
insert_childrenFirst(el, child) == [el EXCEPT !.children = <<child>> \o @]

\* Element::insert_children.
insert_children(el, child) == [el EXCEPT !.children = Append(@, child)]

\* The stack with a child appended to its last element.
InsertIntoLast(stack, child) ==
    [stack EXCEPT ![Len(stack)] = insert_children(@, child)]

----------------------------------------------------------------------------
(* What a decode returns *)

NoResult == [kind |-> "none", detail |-> "", root |-> <<>>]
Err(e) == [kind |-> "Err", detail |-> e, root |-> <<>>]
Panicked(site) == [kind |-> "Panic", detail |-> site, root |-> <<>>]
Aborted(site) == [kind |-> "Abort", detail |-> site, root |-> <<>>]
OkDocument(root) == [kind |-> "Ok", detail |-> "XmlDocument", root |-> root]
OkBinaryXml == [kind |-> "Ok", detail |-> "BinaryXmlDocument", root |-> <<>>]

\* The result of a failed read inside the chunk scan: `?` returns the error,
\* a panic unwinds, a failed allocation kills the process.
ReadFailure(r) ==
    CASE r.st = "io" -> Err("IoError")
      [] r.st = "invalid" -> Err("InvalidFile")
      [] r.st = "utf" -> Err("StringParseError")
      [] r.st = "panic" -> Panicked("scan")
      [] r.st = "abort" -> Aborted("memory allocation failed")

----------------------------------------------------------------------------
(* Inputs: documents and the bytes they are written as *)

EncU16(n) == <<n % 256, (n \div 256) % 256>>
EncU32(x) == EncU16(x.lo) \o EncU16(x.hi)

RECURSIVE Concat(_)
Concat(ss) == IF ss = <<>> THEN <<>> ELSE Head(ss) \o Concat(Tail(ss))

EncChunkHeader(typ, header_size, size) ==
    EncU16(typ) \o EncU16(header_size) \o EncU32(size)

\* XmlNodeHeader after the chunk header: line number 1, no comment.
EncNodeHeader == EncU32(U32(1)) \o EncU32(U32_MAX)

EncResourceValue(v) ==
    EncU16(8) \o <<0, v.data_type>> \o EncU32(v.data)

EncAttribute(a) ==
    EncU32(a.ns) \o EncU32(a.name)
    \o EncU32(IF a.typed_value.data_type = RVT_String THEN a.typed_value.data
              ELSE U32_MAX)
    \o EncResourceValue(a.typed_value)

EncEvent(e) ==
    CASE e.kind = "XmlStartNameSpace" ->
           EncChunkHeader(RT_XmlStartNameSpace, 16, U32(24)) \o EncNodeHeader
           \o EncU32(e.prefix) \o EncU32(e.uri)
      [] e.kind = "XmlEndNameSpace" ->
           EncChunkHeader(RT_XmlEndNameSpace, 16, U32(24)) \o EncNodeHeader
           \o EncU32(e.prefix) \o EncU32(e.uri)
      [] e.kind = "XmlStartElement" ->
           EncChunkHeader(RT_XmlStartElement, 16,
                          U32(36 + 20 * Len(e.attributes)))
           \o EncNodeHeader \o EncU32(e.ns) \o EncU32(e.name)
           \o EncU16(20) \o EncU16(20) \o EncU16(Len(e.attributes))
           \o EncU16(0) \o EncU16(0) \o EncU16(0)
           \o Concat([i \in 1..Len(e.attributes) |-> EncAttribute(e.attributes[i])])
      [] e.kind = "XmlEndElement" ->
           EncChunkHeader(RT_XmlEndElement, 16, U32(24)) \o EncNodeHeader
           \o EncU32(e.ns) \o EncU32(e.name)
      [] e.kind = "XmlCdata" ->
           EncChunkHeader(RT_XmlCdata, 16, U32(28)) \o EncNodeHeader
           \o EncU32(e.data) \o EncResourceValue(e.typed_data)

\* A code point as UTF-16 code units and as UTF-8 bytes.
Utf16Of(c) ==
    IF c < 65536 THEN EncU16(c)
    ELSE EncU16(55296 + ((c - 65536) \div 1024)) \o EncU16(56320 + ((c - 65536) % 1024))
Utf8Of(c) ==
    IF c < 128 THEN <<c>>
    ELSE IF c < 2048 THEN <<192 + (c \div 64), 128 + (c % 64)>>
    ELSE IF c < 65536
    THEN <<224 + (c \div 4096), 128 + ((c \div 64) % 64), 128 + (c % 64)>>
    ELSE <<240 + (c \div 262144), 128 + ((c \div 4096) % 64),
           128 + ((c \div 64) % 64), 128 + (c % 64)>>

\* One string pool entry: length, data, terminator.
EncString(str, utf8) ==
    LET data == Concat([i \in 1..Len(str) |->
                          IF utf8 THEN Utf8Of(str[i]) ELSE Utf16Of(str[i])])
    IN IF utf8 THEN <<Len(str), Len(data)>> \o data \o <<0>>
       ELSE EncU16(Len(data) \div 2) \o data \o <<0, 0>>

RECURSIVE Offsets(_, _)
Offsets(encs, at) ==
    IF encs = <<>> THEN <<>>
    ELSE <<at>> \o Offsets(Tail(encs), at + Len(Head(encs)))

Pad4(b) == b \o [i \in 1..((4 - (Len(b) % 4)) % 4) |-> 0]

\* A string pool chunk.  c.size_adj and c.start_adj are added to the size
\* and string_start a writer would put (0 in a pool written correctly).
\* c.count is the string_count field, the number of strings in such a pool.
EncPool(c) ==
    LET encs == [i \in 1..Len(c.strings) |-> EncString(c.strings[i], c.utf8)]
        offs == Offsets(encs, 0)
        body == Concat([i \in 1..Len(offs) |-> EncU32(U32(offs[i]))])
                \o Pad4(Concat(encs))
    IN EncChunkHeader(RT_StringPool, STRINGPOOL_HEADER_SIZE,
                      U32(STRINGPOOL_HEADER_SIZE + Len(body) + c.size_adj))
       \o EncU32(c.count) \o EncU32(U32(c.style_count))
       \o EncU32(U32(IF c.utf8 THEN 256 ELSE 0))
       \o EncU32(U32(STRINGPOOL_HEADER_SIZE + 4 * Len(c.strings) + c.start_adj))
       \o EncU32(U32(0)) \o body

\* A resource map chunk; c.size is the size field of its header.
EncMap(c) ==
    EncChunkHeader(RT_XmlResourceMap, 8, c.size)
    \o Concat([i \in 1..Len(c.ids) |-> EncU32(c.ids[i])])

EncChunk(c) ==
    CASE c.c = "pool" -> EncPool(c)
      [] c.c = "map" -> EncMap(c)
      [] c.c = "event" -> EncEvent(c.ev)
      [] c.c = "raw" -> c.bytes

\* The bytes of a document: the top-level header, the chunks, then the
\* first d.keep bytes of it all (everything when d.keep < 0).
Bytes(d) ==
    LET body == Concat([i \in 1..Len(d.chunks) |-> EncChunk(d.chunks[i])])
        all == EncChunkHeader(d.top, 8, U32(8 + Len(body))) \o body
    IN IF d.keep < 0 THEN all ELSE SubSeq(all, 1, d.keep)

----------------------------------------------------------------------------
(* The documents decoded *)

\* Longest sequence of node chunks enumerated from EventTemplates.
MaxEvents == 3

\* Pool of the enumerated documents: "a" (a name), "u" (a namespace URI),
\* "p" (a prefix).
BaseStrings == << <<97>>, <<117>>, <<112>> >>
IxName == U32(Len(BaseStrings) - 3)
IxUri == U32(Len(BaseStrings) - 2)
IxPrefix == U32(Len(BaseStrings) - 1)
\* An index past the end of every pool used here.
IxPast == U32(Len(BaseStrings) + 6)

Pool(strings, utf8) ==
    [c |-> "pool", strings |-> strings, utf8 |-> utf8,
     count |-> U32(Len(strings)), style_count |-> 0,
     size_adj |-> 0, start_adj |-> 0]
Map(ids) == [c |-> "map", ids |-> ids, size |-> U32(8 + 4 * Len(ids))]
Event(e) == [c |-> "event", ev |-> e]
Raw(b) == [c |-> "raw", bytes |-> b]
Events(evs) == [i \in 1..Len(evs) |-> Event(evs[i])]

Doc(top, chunks, keep) == [top |-> top, chunks |-> chunks, keep |-> keep]

BasePool == Pool(BaseStrings, FALSE)
BaseMap == Map(<<[hi |-> 257, lo |-> 3]>>)

StartNs(prefix, uri) ==
    [kind |-> "XmlStartNameSpace", prefix |-> prefix, uri |-> uri]
EndNs(prefix, uri) == [kind |-> "XmlEndNameSpace", prefix |-> prefix, uri |-> uri]
StartEl(ns, name, attrs) ==
    [kind |-> "XmlStartElement", ns |-> ns, name |-> name, attributes |-> attrs]
EndEl(ns, name) == [kind |-> "XmlEndElement", ns |-> ns, name |-> name]
Cdata(data, t, d) ==
    [kind |-> "XmlCdata", data |-> data,
     typed_data |-> [size |-> 8, res |-> 0, data_type |-> t, data |-> d]]
Attr(ns, name, t, d) ==
    [ns |-> ns, name |-> name,
     typed_value |-> [size |-> 8, res |-> 0, data_type |-> t, data |-> d]]

EventTemplates ==
    { StartNs(IxPrefix, IxUri),
      EndNs(IxPrefix, IxUri),
      StartEl(U32_MAX, IxName, <<>>),
      StartEl(U32_MAX, IxName, <<Attr(IxUri, IxName, RVT_String, IxPrefix)>>),
      StartEl(U32_MAX, IxPrefix,
              <<Attr(U32_MAX, IxName, RVT_Dec, U32(42)),
                Attr(U32_MAX, IxName, RVT_Boolean, U32(0))>>),
      StartEl(IxUri, IxName, <<>>),
      StartEl(IxPast, IxName, <<Attr(IxPast, IxPrefix, RVT_Hex, U32(255))>>),
      EndEl(U32_MAX, IxName),
      Cdata(IxName, RVT_String, IxUri) }

EventSeqs == UNION {[1..n -> EventTemplates] : n \in 0..MaxEvents}

\* Every sequence of at most MaxEvents node chunks after a pool and a map.
EventDocs ==
    {Doc(RT_Xml, <<BasePool, BaseMap>> \o Events(evs), -1) : evs \in EventSeqs}

\* A manifest-like document: a namespace, a root with a namespaced
\* attribute, a child with text, and a second prefix for the same URI.
RichEvents ==
    << StartNs(IxPrefix, IxUri),
       StartEl(U32_MAX, IxName, <<Attr(IxUri, IxName, RVT_String, IxPrefix)>>),
       StartEl(U32_MAX, IxPrefix, <<Attr(U32_MAX, IxName, 1, [hi |-> 32513, lo |-> 7])>>),
       Cdata(IxUri, RVT_String, IxName),
       EndEl(U32_MAX, IxPrefix),
       StartNs(IxName, IxUri),
       StartEl(U32_MAX, IxUri, <<Attr(IxUri, IxPrefix, RVT_Boolean, U32(1))>>),
       EndEl(U32_MAX, IxUri),
       EndEl(U32_MAX, IxName),
       EndNs(IxPrefix, IxUri) >>
RichDoc == Doc(RT_Xml, <<BasePool, BaseMap>> \o Events(RichEvents), -1)

\* The manifest-like document cut after every number of bytes.
CutDocs == {[RichDoc EXCEPT !.keep = k] : k \in 0..Len(Bytes(RichDoc))}

\* Bytes that follow the chunk closing the root element.
Tails ==
    { EncChunkHeader(RT_Table, 8, U32(8)),
      EncChunkHeader(RT_Xml, 8, U32(8)),
      EncChunkHeader(RT_NullType, 8, U32(8)),
      EncChunkHeader(RT_XmlLastChunk, 8, U32(8)),
      EncChunkHeader(RT_TableLibrary, 8, U32(8)),
      EncChunkHeader(665, 8, U32(8)),
      EncU16(665),
      EncU16(RT_Table),
      <<1>>,
      SubSeq(EncEvent(Cdata(IxName, RVT_String, IxName)), 1, 20),
      EncEvent(Cdata(IxName, 7, IxName)),
      EncEvent(Cdata(IxPast, RVT_String, IxName)),
      EncEvent(EndEl(U32_MAX, IxName)) }
TailDocs ==
    {Doc(RT_Xml,
         <<BasePool, BaseMap>>
         \o Events(<<StartEl(U32_MAX, IxName, <<>>), EndEl(U32_MAX, IxName)>>)
         \o <<Raw(t)>>, -1) : t \in Tails}

\* Pool and map present, absent, repeated, in either order, before or
\* after the node chunks.
ChunkDocs ==
    {Doc(RT_Xml, pre \o Events(evs) \o post, -1) :
        pre \in {<<>>, <<BasePool>>, <<BaseMap>>, <<BasePool, BaseMap>>,
                 <<BaseMap, BasePool>>,
                 <<Pool(<<>>, FALSE), BaseMap, BasePool>>},
        evs \in {<<>>, <<StartEl(U32_MAX, IxName, <<>>), EndEl(U32_MAX, IxName)>>,
                 <<StartEl(U32_MAX, IxName, <<>>)>>},
        post \in {<<>>, <<BasePool>>, <<BaseMap>>}}

\* String pools of several sizes and encodings, and pools written wrongly.
PoolVariants ==
    {Pool(strs, u) :
        strs \in {<<>>, << <<97>> >>, BaseStrings,
                  << <<233, 8364>>, <<128512>>, <<>> >>},
        u \in BOOLEAN}
    \cup {[BasePool EXCEPT !.style_count = 1],
          [BasePool EXCEPT !.size_adj = 4],
          [BasePool EXCEPT !.size_adj = 0 - 60],
          [BasePool EXCEPT !.start_adj = 0 - 20],
          [BasePool EXCEPT !.start_adj = 400],
          [BasePool EXCEPT !.start_adj = 2],
          [BasePool EXCEPT !.start_adj = 3, !.utf8 = TRUE],
          [BasePool EXCEPT !.count = U32(9)],
          [BasePool EXCEPT !.count = [hi |-> 32768, lo |-> 0]],
          [BasePool EXCEPT !.count = U32_MAX]}
MapVariants ==
    {Map(<<>>), Map(<<U32(1), U32_MAX>>), [Map(<<>>) EXCEPT !.size = U32(4)],
     [Map(<<>>) EXCEPT !.size = U32(16)],
     [Map(<<U32(7)>>) EXCEPT !.size = [hi |-> 40000, lo |-> 0]]}
PoolDocs ==
    {Doc(RT_Xml,
         <<pl, mp>>
         \o Events(<<StartEl(U32_MAX, U32(0),
                             <<Attr(U32_MAX, U32(0), RVT_String, U32(0))>>),
                     EndEl(U32_MAX, U32(0))>>), -1) :
        pl \in PoolVariants, mp \in MapVariants}

\* First headers of every kind, whole and cut short.
TopDocs ==
    {Doc(top, <<>>, k) :
        top \in {RT_NullType, RT_StringPool, RT_Table, RT_Xml,
                 RT_XmlStartElement, RT_XmlResourceMap, 665},
        k \in {0 - 1, 0, 1, 2, 5}}

\* Longer sequences of plain elements and text, where elements nest two
\* and more deep and have several children.
NestedTemplates ==
    {StartEl(U32_MAX, IxName, <<>>), EndEl(U32_MAX, IxName),
     Cdata(IxUri, RVT_String, IxUri)}
NestedSeqs ==
    UNION {[1..n -> NestedTemplates] : n \in (MaxEvents + 1)..(MaxEvents + 2)}
NestedDocs ==
    {Doc(RT_Xml, <<BasePool, BaseMap>> \o Events(evs), -1) : evs \in NestedSeqs}

Docs ==
    EventDocs \cup NestedDocs \cup CutDocs \cup TailDocs \cup ChunkDocs
    \cup PoolDocs \cup TopDocs

----------------------------------------------------------------------------
(* The decoder *)

Init ==
    /\ doc \in Docs
    /\ entry \in {"parse", "BinaryXmlDocument"}
    /\ input = Bytes(doc)
    /\ pos = 0
    /\ pc = "start"
    /\ elements = <<>>
    /\ string_pool = <<>>
    /\ resource_map = <<>>
    /\ namespaces = <<>>
    /\ element_tracker = <<>>
    /\ idx = 0
    /\ result = NoResult

\* Return from the decoder with result r.
Return(r) ==
    /\ pc' = "done"
    /\ result' = r

\* The header the scan loop reads at the current position.
Header == ChunkHeaderRead(input, pos, ResourceTypeOf(entry))

\* parse, lib.rs 134-138, and BinaryXmlDocument::read_from_file, binaryxml.rs
\* 17-21: the first header must be read and be of type Xml.
ReadTopHeader ==
    /\ pc = "start"
    /\ IF Header.st # "ok" THEN Return(ReadFailure(Header)) /\ pos' = Header.pos
       ELSE IF Header.val.typ # RT_Xml
       THEN Return(Err("InvalidFile")) /\ pos' = Header.pos
       ELSE pc' = "scan" /\ pos' = Header.pos /\ UNCHANGED result
    /\ UNCHANGED <<doc, entry, input, elements, string_pool, resource_map,
                   namespaces, element_tracker, idx>>

\* The scan loop: an IoError of the header read breaks out of the loop, the
\* bytes of a header cut short consumed.
ScanBreak ==
    /\ pc = "scan"
    /\ Header.st = "io"
    /\ pc' = "finish"
    /\ pos' = Header.pos
    /\ UNCHANGED <<doc, entry, input, elements, string_pool, resource_map,
                   namespaces, element_tracker, idx, result>>

\* The scan loop: any other error of the header read is returned.
ScanBadHeader ==
    /\ pc = "scan"
    /\ Header.st = "invalid"
    /\ Return(ReadFailure(Header))
    /\ pos' = Header.pos
    /\ UNCHANGED <<doc, entry, input, elements, string_pool, resource_map,
                   namespaces, element_tracker, idx>>

\* A chunk whose body read gave r: the value goes where `store` says, an
\* error or a panic ends the decode.
ScanChunk(typ, r, store) ==
    /\ pc = "scan"
    /\ Header.st = "ok"
    /\ Header.val.typ = typ
    /\ IF r.st # "ok"
       THEN /\ Return(ReadFailure(r))
            /\ UNCHANGED <<elements, string_pool, resource_map>>
       ELSE /\ UNCHANGED <<pc, result>>
            /\ elements' = IF store = "elements" THEN Append(elements, r.val)
                           ELSE elements
            /\ string_pool' = IF store = "string_pool" THEN <<r.val>>
                              ELSE string_pool
            /\ resource_map' = IF store = "resource_map" THEN <<r.val>>
                               ELSE resource_map
    /\ pos' = r.pos
    /\ UNCHANGED <<doc, entry, input, namespaces, element_tracker, idx>>

ScanStringPool ==
    /\ pc = "scan"
    /\ Header.st = "ok"
    /\ Header.val.typ = RT_StringPool
    /\ \E r \in StringPoolRead(input, Header.pos, Header.val) :
           ScanChunk(RT_StringPool, r, "string_pool")

ScanResourceMap ==
    /\ pc = "scan"
    /\ Header.st = "ok"
    /\ Header.val.typ = RT_XmlResourceMap
    /\ \E r \in ParseResourceMap(input, Header.pos, Header.val) :
           ScanChunk(RT_XmlResourceMap, r, "resource_map")

ScanStartNameSpace ==
    ScanChunk(RT_XmlStartNameSpace, XmlStartNameSpaceRead(input, Header.pos),
              "elements")

ScanEndNameSpace ==
    ScanChunk(RT_XmlEndNameSpace, XmlEndNameSpaceRead(input, Header.pos),
              "elements")

ScanStartElement ==
    ScanChunk(RT_XmlStartElement, XmlStartElementRead(input, Header.pos),
              "elements")

ScanEndElement ==
    ScanChunk(RT_XmlEndElement, XmlEndElementRead(input, Header.pos), "elements")

ScanCdata ==
    ScanChunk(RT_XmlCdata, XmlCdataRead(input, Header.pos), "elements")

\* The chunk types the scan loop has an arm for.
Dispatched ==
    {RT_StringPool, RT_XmlResourceMap, RT_XmlStartNameSpace, RT_XmlEndNameSpace,
     RT_XmlStartElement, RT_XmlEndElement, RT_XmlCdata}

\* The `_` arm turned into a skip: the header is passed over and the scan
\* goes on.
ScanOtherSkips ==
    /\ pc = "scan"
    /\ Header.st = "ok"
    /\ Header.val.typ \notin Dispatched
    /\ pos' = Header.pos
    /\ UNCHANGED <<doc, entry, input, pc, result, elements, string_pool,
                   resource_map, namespaces, element_tracker, idx>>

\* The `_` arm: every other chunk type is InvalidFile.
ScanOther ==
    /\ pc = "scan"
    /\ Header.st = "ok"
    /\ Header.val.typ \notin Dispatched
    /\ Return(Err("InvalidFile"))
    /\ pos' = Header.pos
    /\ UNCHANGED <<doc, entry, input, elements, string_pool, resource_map,
                   namespaces, element_tracker, idx>>

\* parse, lib.rs 187-191: both options are unwrapped and XmlDocument::new
\* is entered.
ParseFinish ==
    /\ pc = "finish"
    /\ entry = "parse"
    /\ IF string_pool = <<>> THEN Return(Panicked("string_pool.unwrap()"))
       ELSE IF resource_map = <<>> THEN Return(Panicked("resource_map.unwrap()"))
       ELSE pc' = "build" /\ UNCHANGED result
    /\ UNCHANGED <<doc, entry, input, pos, elements, string_pool, resource_map,
                   namespaces, element_tracker, idx>>

\* BinaryXmlDocument::read_from_file, binaryxml.rs 70-74: a missing chunk is
\* an error.
BinaryXmlFinish ==
    /\ pc = "finish"
    /\ entry = "BinaryXmlDocument"
    /\ Return(IF string_pool = <<>> THEN Err("MissingStringPoolChunk")
              ELSE IF resource_map = <<>> THEN Err("MissingResourceMapChunk")
              ELSE OkBinaryXml)
    /\ UNCHANGED <<doc, entry, input, pos, elements, string_pool, resource_map,
                   namespaces, element_tracker, idx>>

\* XmlDocument::new is running and its loop is at elements[idx + 1].
Building(kind) ==
    /\ pc = "build"
    /\ idx < Len(elements)
    /\ elements[idx + 1].kind = kind

\* A panic inside XmlDocument::new.
BuildPanic(site) ==
    /\ Return(Panicked(site))
    /\ UNCHANGED <<namespaces, element_tracker, idx>>

\* XmlDocument::new, xml.rs 24-27.
NewStartNameSpace ==
    /\ Building("XmlStartNameSpace")
    /\ LET r == process_start_namespace(elements[idx + 1], string_pool[1]) IN
       IF r.st # "ok" THEN BuildPanic(r.val)
       ELSE /\ namespaces' = Insert(namespaces, r.val[1], r.val[2])
            /\ idx' = idx + 1
            /\ UNCHANGED <<pc, result, element_tracker>>
    /\ UNCHANGED <<doc, entry, input, pos, elements, string_pool, resource_map>>

\* The XmlEndNameSpace arm taking the namespace's URI out of the table.
NewEndNameSpaceRemoves ==
    /\ Building("XmlEndNameSpace")
    /\ idx' = idx + 1
    /\ namespaces' =
         LET uri == get(string_pool[1], elements[idx + 1].uri) IN
         [u \in (DOMAIN namespaces) \ {IF uri = <<>> THEN <<>> ELSE uri[1]}
            |-> namespaces[u]]
    /\ UNCHANGED <<doc, entry, input, pos, pc, elements, string_pool,
                   resource_map, element_tracker, result>>

\* XmlDocument::new, xml.rs 28.
NewEndNameSpace ==
    /\ Building("XmlEndNameSpace")
    /\ idx' = idx + 1
    /\ UNCHANGED <<doc, entry, input, pos, pc, elements, string_pool,
                   resource_map, namespaces, element_tracker, result>>

\* XmlDocument::new, xml.rs 29-35.
NewStartElement ==
    /\ Building("XmlStartElement")
    /\ LET r == process_start_element(elements[idx + 1], string_pool[1],
                                      namespaces) IN
       IF r.st # "ok" THEN BuildPanic(r.val)
       ELSE /\ element_tracker' = Append(element_tracker, r.val)
            /\ idx' = idx + 1
            /\ UNCHANGED <<pc, result, namespaces>>
    /\ UNCHANGED <<doc, entry, input, pos, elements, string_pool, resource_map>>

\* EndElementStep with the emptiness test made before the pop: the last
\* element is then appended to the top of an empty stack.
EndElementStepTestBeforePop(stack) ==
    IF Len(stack) <= 1 THEN [to |-> "panic", stack |-> stack, root |-> <<>>]
    ELSE [to |-> "loop",
          stack |-> InsertIntoLast(SubSeq(stack, 1, Len(stack) - 1),
                                   stack[Len(stack)]),
          root |-> <<>>]

\* EndElementStep without the early return: the loop goes on after the
\* root was popped.
EndElementStepNoReturn(stack) ==
    IF stack = <<>> THEN [to |-> "panic", stack |-> stack, root |-> <<>>]
    ELSE IF Len(stack) = 1
    THEN [to |-> "loop", stack |-> <<>>, root |-> <<stack[1]>>]
    ELSE [to |-> "loop",
          stack |-> InsertIntoLast(SubSeq(stack, 1, Len(stack) - 1),
                                   stack[Len(stack)]),
          root |-> <<>>]

\* What XmlDocument::new does with an XmlEndElement on stack `stack`:
\* pop (unwrapped); an empty stack afterwards returns the popped element as
\* the root, otherwise it becomes the last child of the new top.
EndElementStep(stack) ==
    IF stack = <<>> THEN [to |-> "panic", stack |-> stack, root |-> <<>>]
    ELSE IF Len(stack) = 1
    THEN [to |-> "return", stack |-> <<>>, root |-> <<stack[1]>>]
    ELSE [to |-> "loop",
          stack |-> InsertIntoLast(SubSeq(stack, 1, Len(stack) - 1),
                                   stack[Len(stack)]),
          root |-> <<>>]

\* XmlDocument::new, xml.rs 36-50.
NewEndElement ==
    /\ Building("XmlEndElement")
    /\ LET r == EndElementStep(element_tracker) IN
       IF r.to = "panic" THEN BuildPanic("element_tracker.pop().unwrap()")
       ELSE /\ element_tracker' = r.stack
            /\ idx' = idx + 1
            /\ IF r.to = "return" THEN Return(OkDocument(r.root))
               ELSE UNCHANGED <<pc, result>>
            /\ UNCHANGED namespaces
    /\ UNCHANGED <<doc, entry, input, pos, elements, string_pool, resource_map>>

\* XmlDocument::new, xml.rs 51-57.
NewCdata ==
    /\ Building("XmlCdata")
    /\ LET r == process_cdata(elements[idx + 1], string_pool[1]) IN
       IF r.st # "ok" THEN BuildPanic(r.val)
       ELSE IF element_tracker = <<>>
       THEN BuildPanic("element_tracker.last_mut().unwrap()")
       ELSE /\ element_tracker' = InsertIntoLast(element_tracker, r.val)
            /\ idx' = idx + 1
            /\ UNCHANGED <<pc, result, namespaces>>
    /\ UNCHANGED <<doc, entry, input, pos, elements, string_pool, resource_map>>

\* XmlDocument::new, xml.rs 61: the loop ran out of elements.
NewExhausted ==
    /\ pc = "build"
    /\ idx = Len(elements)
    /\ Return(OkDocument(<<>>))
    /\ UNCHANGED <<doc, entry, input, pos, elements, string_pool, resource_map,
                   namespaces, element_tracker, idx>>

Next ==
    \/ ReadTopHeader
    \/ ScanBreak
    \/ ScanBadHeader
    \/ ScanStringPool
    \/ ScanResourceMap
    \/ ScanStartNameSpace
    \/ ScanEndNameSpace
    \/ ScanStartElement
    \/ ScanEndElement
    \/ ScanCdata
    \/ ScanOther
    \/ ParseFinish
    \/ BinaryXmlFinish
    \/ NewStartNameSpace
    \/ NewEndNameSpace
    \/ NewStartElement
    \/ NewEndElement
    \/ NewCdata
    \/ NewExhausted

Spec == Init /\ [][Next]_vars

----------------------------------------------------------------------------
(* Well-formed documents *)

\* Index x is inside a pool of the strings strs.
InRange(x, strs) == Fits(x) /\ Num(x) < Len(strs)

AttrWellFormed(a, strs, uris) ==
    /\ InRange(a.name, strs)
    /\ a.ns = U32_MAX \/ (InRange(a.ns, strs) /\ strs[Num(a.ns) + 1] \in uris)
    /\ a.typed_value.data_type \in ResourceValueTypes
    /\ a.typed_value.data_type = RVT_String => InRange(a.typed_value.data, strs)

\* The node chunks evs[i..] are those of a document: elements nest and all
\* close, there is at least one, text lies inside an element, every string
\* reference is inside the pool, element tags carry no namespace and every
\* attribute namespace was declared by an earlier StartNamespace.
RECURSIVE EventsWellFormed(_, _, _, _, _, _)
EventsWellFormed(evs, i, strs, depth, uris, closed) ==
    IF i > Len(evs) THEN depth = 0 /\ closed
    ELSE LET e == evs[i] IN
         CASE e.kind = "XmlStartNameSpace" ->
                /\ InRange(e.uri, strs) /\ InRange(e.prefix, strs)
                /\ EventsWellFormed(evs, i + 1, strs, depth,
                                    uris \cup {strs[Num(e.uri) + 1]}, closed)
           [] e.kind = "XmlEndNameSpace" ->
                EventsWellFormed(evs, i + 1, strs, depth, uris, closed)
           [] e.kind = "XmlStartElement" ->
                /\ e.ns = U32_MAX /\ InRange(e.name, strs)
                /\ \A k \in 1..Len(e.attributes) :
                      AttrWellFormed(e.attributes[k], strs, uris)
                /\ EventsWellFormed(evs, i + 1, strs, depth + 1, uris, closed)
           [] e.kind = "XmlEndElement" ->
                /\ depth > 0
                /\ EventsWellFormed(evs, i + 1, strs, depth - 1, uris, TRUE)
           [] e.kind = "XmlCdata" ->
                /\ depth > 0 /\ InRange(e.data, strs)
                /\ e.typed_data.data_type \in ResourceValueTypes
                /\ EventsWellFormed(evs, i + 1, strs, depth, uris, closed)

\* A well-formed input: the Xml header, one string pool and one resource
\* map written correctly, then well-formed node chunks, all bytes present
\* (the document is not cut, or cut after its last byte).
WellFormed(d) ==
    /\ d.top = RT_Xml
    /\ d.keep < 0 \/ d.keep = Len(Bytes([d EXCEPT !.keep = 0 - 1]))
    /\ Len(d.chunks) >= 2
    /\ d.chunks[1].c = "pool"
    /\ d.chunks[1].count = U32(Len(d.chunks[1].strings))
    /\ d.chunks[1].style_count = 0
    /\ d.chunks[1].size_adj = 0
    /\ d.chunks[1].start_adj = 0
    /\ d.chunks[2].c = "map"
    /\ d.chunks[2].size = U32(8 + 4 * Len(d.chunks[2].ids))
    /\ \A i \in 3..Len(d.chunks) : d.chunks[i].c = "event"
    /\ EventsWellFormed([i \in 1..(Len(d.chunks) - 2) |-> d.chunks[i + 2].ev], 1,
                        d.chunks[1].strings, 0, {}, FALSE)

----------------------------------------------------------------------------
(* Claims *)

\* C1: for every well-formed input decoding runs to its end and succeeds:
\* parse returns a Document whose root is present (and
\* BinaryXmlDocument::read_from_file returns Ok).
C1_WellFormedDecodes ==
    WellFormed(doc) =>
        /\ result.kind \in {"none", "Ok"}
        /\ pc # "done" => ENABLED Next
        /\ (pc = "done" /\ entry = "parse") => result.root # <<>>

\* A well-formed document with nested elements was decoded by parse: the
\* root has attributes and two element children, the first with a child of
\* its own.
C1_Witness ==
    /\ WellFormed(doc)
    /\ entry = "parse"
    /\ pc = "done"
    /\ result.root # <<>>
    /\ result.root[1].attributes # <<>>
    /\ Len(result.root[1].children) = 2
    /\ result.root[1].children[1].node = "Element"
    /\ result.root[1].children[2].node = "Element"
    /\ result.root[1].children[1].children # <<>>

\* C2: when XmlDocument::new runs out of events with elements still open on
\* the stack, decoding reports the error IncompleteDocument.
C2_IncompleteIsAnError ==
    (pc = "done" /\ entry = "parse" /\ idx = Len(elements)
     /\ element_tracker # <<>>)
        => result = Err("IncompleteDocument")

\* C3: when the chunk scan ends without a string pool or without a resource
\* map, the decoder returns a missing-chunk error value; it does not abort.
C3_MissingChunkIsAnError ==
    [][(pc = "finish" /\ (string_pool = <<>> \/ resource_map = <<>>))
          => (/\ result'.kind = "Err"
              /\ result'.detail \in {"MissingStringPoolChunk",
                                     "MissingResourceMapChunk"})]_vars

\* C4: an input that is exactly one valid top-level Xml header is decoded
\* to the truncation error (IoError), never a panic and never success.
C4_HeaderOnlyIsTruncated ==
    (pc = "done" /\ input = EncChunkHeader(RT_Xml, 8, U32(8)))
        => result = Err("IoError")

\* C5: a complete first header whose type is not Xml, and a complete later
\* header whose type is not StringPool, XmlResourceMap or one of the five
\* node kinds (unrecognised values included), ends the decode at once with
\* InvalidFile: the chunk is not skipped.
C5_StrictDispatch ==
    [][/\ (pc = "start" /\ Avail(input, pos, 8) /\ U16At(input, pos) # 3)
            => (pc' = "done" /\ result' = Err("InvalidFile"))
       /\ (pc = "scan" /\ Avail(input, pos, 8)
           /\ U16At(input, pos) \notin {1, 384, 256, 257, 258, 259, 260})
            => (pc' = "done" /\ result' = Err("InvalidFile"))]_vars

\* An unrecognised tag after the root element's chunks ended the decode.
C5_Witness ==
    /\ pc = "done"
    /\ result = Err("InvalidFile")
    /\ Len(elements) = 2
    /\ pos >= 2
    /\ Avail(input, pos - 2, 8)
    /\ U16At(input, pos - 2) = 665

\* C6: in every string pool, of any size, the lookup of index 0xFFFFFFFF
\* gives "absent" (None): no pooled string and no other outcome.
C6_SentinelIsAbsent ==
    string_pool # <<>> => get(string_pool[1], U32_MAX) = <<>>

\* A StartElement whose ns is 0xFFFFFFFF was looked up in a pool of three
\* strings and its element pushed.
C6_Witness ==
    /\ string_pool # <<>>
    /\ Len(string_pool[1].strings) = 3
    /\ idx >= 1
    /\ elements[idx].kind = "XmlStartElement"
    /\ elements[idx].ns = U32_MAX
    /\ element_tracker # <<>>

\* Indexes at and past the end of a pool of n strings, none 0xFFFFFFFF.
PastTheEnd(n) ==
    {U32(n), U32(n + 6), [hi |-> 40000, lo |-> 0], [hi |-> 65535, lo |-> 65534]}

\* C7: the lookup of an index that is not 0xFFFFFFFF and is at or past the
\* end of the pool gives an outcome other than that of "absent".
C7_PastTheEndIsNotAbsent ==
    string_pool # <<>> =>
        \A i \in PastTheEnd(Len(string_pool[1].strings)) :
            get(string_pool[1], i) # get(string_pool[1], U32_MAX)

\* The StartElement e can be built up to its attribute keys: no element
\* namespace, and every name, attribute namespace and string value inside
\* the pool.
C8_Resolves(e, strs) ==
    /\ e.ns = U32_MAX
    /\ InRange(e.name, strs)
    /\ \A k \in 1..Len(e.attributes) :
          LET a == e.attributes[k] IN
          /\ InRange(a.name, strs)
          /\ a.ns = U32_MAX \/ InRange(a.ns, strs)
          /\ a.typed_value.data_type = RVT_String
                => InRange(a.typed_value.data, strs)

\* The key the claim gives attribute a under the namespace table nss.
C8_Key(a, strs, nss) ==
    IF a.ns = U32_MAX THEN strs[Num(a.name) + 1]
    ELSE nss[strs[Num(a.ns) + 1]] \o <<58>> \o strs[Num(a.name) + 1]

\* Some attribute of e names a URI that no StartNamespace registered.
C8_Unregistered(e, strs, nss) ==
    \E k \in 1..Len(e.attributes) :
        /\ e.attributes[k].ns # U32_MAX
        /\ strs[Num(e.attributes[k].ns) + 1] \notin DOMAIN nss

\* C8, its first two cases: with no unregistered URI the element is pushed
\* and its keys are the local name for an absent ns and "<prefix>:<name>",
\* with the prefix now mapped to the URI, otherwise.
C8_KeysWhenRegistered ==
    [][(/\ Building("XmlStartElement")
        /\ C8_Resolves(elements[idx + 1], string_pool[1].strings)
        /\ ~C8_Unregistered(elements[idx + 1], string_pool[1].strings, namespaces))
          => (/\ Len(element_tracker') = Len(element_tracker) + 1
              /\ DOMAIN element_tracker'[Len(element_tracker')].attributes
                   = {C8_Key(elements[idx + 1].attributes[k],
                             string_pool[1].strings, namespaces) :
                         k \in 1..Len(elements[idx + 1].attributes)})]_vars

\* C8: every attribute key of a StartElement is the local name when its ns
\* is absent and "<prefix>:<name>" when its ns is a registered URI; an ns
\* that is a URI never registered fails the decode with NamespaceNotFound.
C8_AttributeKeys ==
    [][(/\ Building("XmlStartElement")
        /\ C8_Resolves(elements[idx + 1], string_pool[1].strings))
          => IF C8_Unregistered(elements[idx + 1], string_pool[1].strings,
                                namespaces)
             THEN pc' = "done" /\ result' = Err("NamespaceNotFound")
             ELSE /\ Len(element_tracker') = Len(element_tracker) + 1
                  /\ DOMAIN element_tracker'[Len(element_tracker')].attributes
                       = {C8_Key(elements[idx + 1].attributes[k],
                                 string_pool[1].strings, namespaces) :
                             k \in 1..Len(elements[idx + 1].attributes)}]_vars

\* The u32 whose decimal digits are ds[1..n], as <<value>>, or <<>> when ds
\* has something other than a digit or the value is 2^32 or more.
RECURSIVE FromDigits(_, _)
FromDigits(ds, n) ==
    IF n = 0 THEN <<U32(0)>>
    ELSE LET front == FromDigits(ds, n - 1)
             d == ds[n] - 48
             lo == front[1].lo * 10 + d
             hi == front[1].hi * 10 + (lo \div 65536)
         IN
         IF front = <<>> \/ d < 0 \/ d > 9 \/ hi > 65535 THEN <<>>
         ELSE <<[hi |-> hi, lo |-> lo % 65536]>>

\* s is the decimal text of x: digits only, no leading zero, value x.
IsDecimalOf(s, x) ==
    /\ Len(s) >= 1
    /\ Len(s) > 1 => s[1] # 48
    /\ FromDigits(s, Len(s)) = <<x>>

\* Data values the resolver is tried on with every type.
DataSamples(strs) ==
    {U32(0), U32(1), U32(2), U32(9), U32(10), U32(42), U32(255), U32(65535),
     U32(65536), U32(1000000), U32(Len(strs)), [hi |-> 32513, lo |-> 7],
     [hi |-> 65535, lo |-> 65534], U32_MAX}

RV(t, d) == [size |-> 8, res |-> 0, data_type |-> t, data |-> d]

\* The table of value resolution on the pool sp, with the placeholder of
\* the other types being head, the type's name, '/' and the decimal text.
C9_Table(sp, head) ==
    \A t \in ResourceValueTypes : \A d \in DataSamples(sp.strings) :
        LET r == get_value(RV(t, d), sp)
            name == head \o DebugName(t)
        IN
        CASE t = 3 ->
               IF InRange(d, sp.strings) THEN r = Val(sp.strings[Num(d) + 1])
               ELSE r.st = "panic"
          [] t = 16 -> r.st = "ok" /\ IsDecimalOf(r.val, d)
          [] t = 17 ->
               /\ r.st = "ok"
               /\ SubSeq(r.val, 1, 2) = <<48, 120>>
               /\ IsDecimalOf(SubSeq(r.val, 3, Len(r.val)), d)
          [] t = 18 ->
               r = Val(IF d = U32(0) THEN <<102, 97, 108, 115, 101>>
                       ELSE <<116, 114, 117, 101>>)
          [] OTHER ->
               /\ r.st = "ok"
               /\ Len(r.val) > Len(name) + 1
               /\ SubSeq(r.val, 1, Len(name)) = name
               /\ r.val[Len(name) + 1] = 47
               /\ IsDecimalOf(SubSeq(r.val, Len(name) + 2, Len(r.val)), d)

\* C9 as stated: the resolver follows the table for every type and data
\* value, and every type other than String, Dec, Hex and Boolean gives the
\* placeholder "<TypeName>/<data>", the name being the type's (Null,
\* Reference, ...).
C9_ValueTableAsStated ==
    (pc = "finish" /\ string_pool # <<>>) => C9_Table(string_pool[1], <<>>)

\* C9 amended: String gives the pooled string at index data and fails
\* without one; Dec the decimal text; Hex "0x" and the decimal digits;
\* Boolean "false" exactly for 0 and "true" otherwise; every other type the
\* placeholder "ResourceValueType::<TypeName>/<data>". Checked on the pool
\* the scan hands over, which no later step changes.
C9_ValueTable ==
    (pc = "finish" /\ string_pool # <<>>) =>
        /\ C9_Table(string_pool[1],
                    <<82, 101, 115, 111, 117, 114, 99, 101, 86, 97, 108, 117,
                      101, 84, 121, 112, 101, 58, 58>>)
        /\ get_value(RV(16, U32(42)), string_pool[1]) = Val(<<52, 50>>)
        /\ get_value(RV(17, U32(255)), string_pool[1])
             = Val(<<48, 120, 50, 53, 53>>)
        /\ get_value(RV(1, U32(7)), string_pool[1])
             = Val(<<82, 101, 115, 111, 117, 114, 99, 101, 86, 97, 108, 117,
                     101, 84, 121, 112, 101, 58, 58, 82, 101, 102, 101, 114,
                     101, 110, 99, 101, 47, 55>>)

\* The pool was handed over and elements were built with it: the root has
\* an attribute from a String and its child one from a Reference, a type
\* with a placeholder.
C9_Witness ==
    /\ string_pool # <<>>
    /\ Len(element_tracker) = 2
    /\ \E k \in DOMAIN element_tracker[1].attributes :
          element_tracker[1].attributes[k] = <<112>>
    /\ \E k \in DOMAIN element_tracker[2].attributes :
          /\ Len(element_tracker[2].attributes[k]) > 29
          /\ SubSeq(element_tracker[2].attributes[k], 18, 29)
               = <<58, 58, 82, 101, 102, 101, 114, 101, 110, 99, 101, 47>>

\* Some first chunks of d are a well-formed document of their own and are
\* all inside the input: the root element is closed by the last of them.
RootClosedIn(d) ==
    \E k \in 3..Len(d.chunks) :
        /\ d.chunks[k].c = "event"
        /\ d.chunks[k].ev.kind = "XmlEndElement"
        /\ WellFormed(Doc(d.top, SubSeq(d.chunks, 1, k), 0 - 1))
        /\ d.keep < 0 \/ d.keep >= Len(Bytes(Doc(d.top, SubSeq(d.chunks, 1, k), 0 - 1)))

\* C10 as stated: once the chunk closing the root element is in the input,
\* parse succeeds with a root, whatever bytes follow that chunk.
C10_BytesAfterRootIgnored ==
    (pc = "done" /\ entry = "parse" /\ RootClosedIn(doc))
        => (result.kind = "Ok" /\ result.root # <<>>)

\* C10 amended: when an EndElement pops the stack and leaves it empty,
\* XmlDocument::new returns at that step with the popped element as the
\* root, and the node chunks after it in the scanned list are never
\* processed: nothing changes the result afterwards.
C10_RootEndsTheBuild ==
    [][/\ (Building("XmlEndElement") /\ Len(element_tracker) = 1)
            => (pc' = "done" /\ result' = OkDocument(<<element_tracker[1]>>))
       /\ pc = "done" => (pc' = "done" /\ result' = result)]_vars

\* parse returned a root while a scanned node chunk was still unprocessed.
C10_Witness ==
    /\ pc = "done"
    /\ result.kind = "Ok"
    /\ result.root # <<>>
    /\ idx < Len(elements)
    /\ elements[idx + 1].kind = "XmlCdata"

\* The tag and the children of a tree node, attributes left out.
RECURSIVE Skeleton(_)
Skeleton(n) ==
    IF n.node = "Cdata" THEN [text |-> n.data]
    ELSE [tag |-> n.tag,
          kids |-> [k \in 1..Len(n.children) |-> Skeleton(n.children[k])]]

\* The nodes nested directly in an element whose StartElement precedes
\* evs[i], read by descent: each StartElement opens a subtree that is read
\* whole before the next sibling, text is a leaf, EndElement closes the list.
\* Gives the children in event order and the index after the EndElement.
RECURSIVE NestedFrom(_, _, _, _)
NestedFrom(evs, i, strs, acc) ==
    IF i > Len(evs) THEN [kids |-> acc, next |-> i, closed |-> FALSE]
    ELSE LET e == evs[i] IN
         CASE e.kind = "XmlEndElement" ->
                [kids |-> acc, next |-> i + 1, closed |-> TRUE]
           [] e.kind = "XmlStartElement" ->
                LET sub == NestedFrom(evs, i + 1, strs, <<>>) IN
                NestedFrom(evs, sub.next, strs,
                           Append(acc, [tag |-> strs[Num(e.name) + 1],
                                        kids |-> sub.kids]))
           [] e.kind = "XmlCdata" ->
                NestedFrom(evs, i + 1, strs,
                           Append(acc, [text |-> strs[Num(e.data) + 1]]))
           [] OTHER -> NestedFrom(evs, i + 1, strs, acc)

\* The index of the first StartElement of evs.
FirstStart(evs) ==
    CHOOSE i \in 1..Len(evs) :
        /\ evs[i].kind = "XmlStartElement"
        /\ \A j \in 1..(i - 1) : evs[j].kind # "XmlStartElement"

\* C11: the tree parse returns nests as the events do and keeps their order:
\* the root is the first StartElement's element, and the children of every
\* element are exactly the elements and text nodes nested directly in it, in
\* the order of their events.
C11_NestingAndOrder ==
    (pc = "done" /\ result.kind = "Ok" /\ result.root # <<>>) =>
        LET i == FirstStart(elements)
            strs == string_pool[1].strings
        IN
        Skeleton(result.root[1])
            = [tag |-> strs[Num(elements[i].name) + 1],
               kids |-> NestedFrom(elements, i + 1, strs, <<>>).kids]

\* A root was returned with two element children in a row, the first with a
\* text child of its own.
C11_Witness ==
    /\ pc = "done"
    /\ result.kind = "Ok"
    /\ result.root # <<>>
    /\ Len(result.root[1].children) = 2
    /\ result.root[1].children[1].node = "Element"
    /\ result.root[1].children[2].node = "Element"
    /\ result.root[1].children[1].tag # result.root[1].children[2].tag
    /\ Len(result.root[1].children[1].children) = 1
    /\ result.root[1].children[1].children[1].node = "Cdata"

\* C12: a CData event processed while the element stack is empty ends the
\* decode in that step with the error value InvalidFile (the code's
\* InvalidFormat): no panic, and the text is not dropped.
C12_TextOutsideIsInvalid ==
    [][(Building("XmlCdata") /\ element_tracker = <<>>)
          => (pc' = "done" /\ result' = Err("InvalidFile"))]_vars

\* C13: a StartElement whose element namespace reference is the index of a
\* pooled string ends the decode in that step with the error value
\* UnsupportedFeature, and nothing is pushed on the stack.
C13_NamespacedTagIsUnsupported ==
    [][(/\ Building("XmlStartElement")
        /\ InRange(elements[idx + 1].ns, string_pool[1].strings))
          => (/\ pc' = "done"
              /\ result' = Err("UnsupportedFeature")
              /\ element_tracker' = element_tracker)]_vars

\* The scan loop is at a header of which only 1 to 7 bytes are left, its type
\* tag, when whole, being one of ResourceType.
C14_HeaderCutShort ==
    /\ pc = "scan"
    /\ pos < Len(input)
    /\ ~Avail(input, pos, 8)
    /\ Avail(input, pos, 2) => U16At(input, pos) \in ResourceTypeOf(entry)

\* The scan loop is at a whole header of a StartNamespace, EndNamespace or
\* EndElement chunk followed by fewer than the 16 bytes of its fields.
C14_NodeCutShort ==
    /\ pc = "scan"
    /\ Avail(input, pos, 8)
    /\ U16At(input, pos) \in {256, 257, 259}
    /\ ~Avail(input, pos + 8, 16)

\* C14: in the scan loop the end of the input ends the scan cleanly only at
\* a header boundary; the end of the input inside a header or inside a
\* chunk's fields ends the decode with IoError (TruncatedInput).
C14_CleanEndOnlyAtBoundary ==
    [][/\ (pc = "scan" /\ pos = Len(input))
            => (pc' = "finish" /\ result' = result)
       /\ C14_HeaderCutShort => (pc' = "done" /\ result' = Err("IoError"))
       /\ C14_NodeCutShort => (pc' = "done" /\ result' = Err("IoError"))]_vars

\* C14, the part that holds: the end of the input at a header boundary ends
\* the scan without an error, and the end of the input inside a node
\* chunk's fields is IoError.
C14_BoundaryAndFields ==
    [][/\ (pc = "scan" /\ pos = Len(input))
            => (pc' = "finish" /\ result' = result)
       /\ C14_NodeCutShort => (pc' = "done" /\ result' = Err("IoError"))]_vars

\* C15: the namespace table only grows or overwrites. A StartNamespace whose
\* two references are inside the pool sets table[uri] to its prefix and
\* leaves every other entry alone; every other step leaves the table as it
\* is, so no URI ever leaves it.
C15_NamespaceTableGrows ==
    [][/\ \A u \in DOMAIN namespaces : u \in DOMAIN namespaces'
       /\ IF /\ Building("XmlStartNameSpace")
             /\ InRange(elements[idx + 1].uri, string_pool[1].strings)
             /\ InRange(elements[idx + 1].prefix, string_pool[1].strings)
          THEN LET strs == string_pool[1].strings
                   uri == strs[Num(elements[idx + 1].uri) + 1]
               IN
               /\ DOMAIN namespaces' = (DOMAIN namespaces) \cup {uri}
               /\ namespaces'[uri] = strs[Num(elements[idx + 1].prefix) + 1]
               /\ \A u \in (DOMAIN namespaces) \ {uri} :
                     namespaces'[u] = namespaces[u]
          ELSE namespaces' = namespaces]_vars

\* A URI was registered with the prefix "p", its namespace ended, and the
\* attribute of a later StartElement still got the key "p:a".
C15_Witness ==
    /\ pc = "build"
    /\ idx >= 3
    /\ elements[idx].kind = "XmlStartElement"
    /\ \E i, k \in 1..(idx - 1) :
          /\ i < k
          /\ elements[i].kind = "XmlStartNameSpace"
          /\ elements[k].kind = "XmlEndNameSpace"
          /\ elements[k].uri = elements[i].uri
    /\ element_tracker # <<>>
    /\ <<112, 58, 97>> \in DOMAIN element_tracker[Len(element_tracker)].attributes

\* The last child of the element on top of the stack.
LastChild(stack) ==
    stack[Len(stack)].children[Len(stack[Len(stack)].children)]

\* C16 as stated: the text of the Text node made from a CData event is the
\* resolution of the event's typed value, not the string at its data
\* reference.
C16_TextIsTypedValue ==
    [][(/\ Building("XmlCdata")
        /\ element_tracker # <<>>
        /\ InRange(elements[idx + 1].data, string_pool[1].strings)
        /\ get_value(elements[idx + 1].typed_data, string_pool[1]).st = "ok")
          => (/\ Len(element_tracker') = Len(element_tracker)
              /\ LastChild(element_tracker').node = "Cdata"
              /\ LastChild(element_tracker').data
                   = get_value(elements[idx + 1].typed_data,
                               string_pool[1]).val)]_vars

\* C16 amended: the text of the Text node made from a CData event is the
\* pooled string at the event's data reference, whatever its typed value is;
\* a data reference with no pooled string stops the decode with a panic.
C16_TextIsDataString ==
    [][(Building("XmlCdata") /\ element_tracker # <<>>)
          => IF InRange(elements[idx + 1].data, string_pool[1].strings)
             THEN /\ Len(element_tracker') = Len(element_tracker)
                  /\ LastChild(element_tracker').node = "Cdata"
                  /\ LastChild(element_tracker').data
                       = string_pool[1].strings[Num(elements[idx + 1].data) + 1]
             ELSE pc' = "done" /\ result'.kind = "Panic"]_vars

\* A CData event whose data is "a" and whose typed value is the String "u"
\* was appended to the open element as the text "a".
C16_Witness ==
    /\ pc = "build"
    /\ idx >= 1
    /\ elements[idx].kind = "XmlCdata"
    /\ elements[idx].data = IxName
    /\ elements[idx].typed_data.data_type = 3
    /\ elements[idx].typed_data.data = IxUri
    /\ element_tracker # <<>>
    /\ element_tracker[Len(element_tracker)].children # <<>>
    /\ LastChild(element_tracker) = [node |-> "Cdata", data |-> <<97>>]

\* The scan loop is at a whole chunk header of type t.
C17_AtHeader(t) ==
    /\ pc = "scan"
    /\ Avail(input, pos, 8)
    /\ U16At(input, pos) = t

\* C17: sizes taken from a header are checked before they are subtracted: a
\* resource map whose size is below its header size, a string pool whose
\* size is below the 28 bytes of its header, and a string pool whose string
\* data starts below 28, each end the decode in that step with an error
\* value; nothing wraps modulo 2^32 and nothing aborts.
C17_SizesAreChecked ==
    [][/\ (/\ C17_AtHeader(384)
           /\ U16At(input, pos + 6) = 0
           /\ U16At(input, pos + 4) < U16At(input, pos + 2))
            => (pc' = "done" /\ result'.kind = "Err")
       /\ (/\ C17_AtHeader(1)
           /\ Avail(input, pos + 8, 20)
           /\ U32At(input, pos + 12) = U32(0)
           /\ U16At(input, pos + 6) = 0
           /\ U16At(input, pos + 4) < 28)
            => (pc' = "done" /\ result'.kind = "Err")
       /\ (/\ C17_AtHeader(1)
           /\ Avail(input, pos + 8, 20)
           /\ U32At(input, pos + 12) = U32(0)
           /\ U16At(input, pos + 22) = 0
           /\ U16At(input, pos + 20) < 28)
            => (pc' = "done" /\ result'.kind = "Err")]_vars

\* The number of events of the given kind among the first n scanned.
C18_Count(kind, n) == Cardinality({i \in 1..n : elements[i].kind = kind})

\* C18, the part that holds: after the first idx events the stack depth
\* is the number of StartElement events minus the number of EndElement
\* events processed, and it is never negative.
C18_DepthCounts ==
    Len(element_tracker)
        = C18_Count("XmlStartElement", idx) - C18_Count("XmlEndElement", idx)

\* C18: the stack depth is the number of StartElement events minus the
\* number of EndElement events processed so far, and an EndElement that
\* finds the stack empty ends the decode with an error value: the stack is
\* never popped when empty and the decoder does not abort.
C18_UnmatchedEndIsAnError ==
    [][/\ C18_DepthCounts
       /\ (Building("XmlEndElement") /\ element_tracker = <<>>)
            => (pc' = "done" /\ result'.kind = "Err")]_vars

====
